---- MODULE Spec2Model ----
(***************************************************************************)
(* A model of src/interactions.h: the cosine-weighted hemisphere sampler   *)
(* calculateRandomDirectionInHemisphere and the scatter routine scatterRay *)
(* of a CUDA path tracer.                                                  *)
(*                                                                         *)
(* Arithmetic.  A float is modelled by an exact rational <<num, den>> with *)
(* den > 0, in lowest terms; <<0, 0>> stands for a non-finite float (the   *)
(* result of a division by zero, NaN or infinity alike).  Input sets are   *)
(* chosen so that every square root and every sine and cosine the code     *)
(* takes is itself rational.  A quantity that carries powers of pi (the    *)
(* code divides by TWO_PI) is a record [c, invPi] standing for             *)
(* c * pi^(-invPi).                                                        *)
(***************************************************************************)
EXTENDS Integers, Sequences, FiniteSets, TLC

(* ------------------------------ bounds -------------------------------- *)

\* the largest bounce budget a path starts with
MaxBounces == 2

\* the largest number of lights in the scene's light-index list
MaxLights == 3

(* ----------------------- rational arithmetic -------------------------- *)

RECURSIVE GCD(_, _)
GCD(a, b) == IF b = 0 THEN a ELSE GCD(b, a % b)

IAbs(n) == IF n < 0 THEN -n ELSE n

NonFinite == <<0, 0>>

Finite(a) == a[2] # 0

Rat(n, d) ==
    IF d = 0 THEN NonFinite
    ELSE LET g == GCD(IAbs(n), IAbs(d))
             s == IF d < 0 THEN -1 ELSE 1
         IN  <<(s * n) \div g, (s * d) \div g>>

Num(n) == <<n, 1>>

RAdd(a, b) ==
    IF ~Finite(a) \/ ~Finite(b) THEN NonFinite
    ELSE LET g == GCD(a[2], b[2])
         IN  Rat(a[1] * (b[2] \div g) + b[1] * (a[2] \div g), a[2] * (b[2] \div g))

RNeg(a) == <<-a[1], a[2]>>

RSub(a, b) == RAdd(a, RNeg(b))

RMul(a, b) ==
    IF ~Finite(a) \/ ~Finite(b) THEN NonFinite
    ELSE Rat(a[1] * b[1], a[2] * b[2])

\* x / 0 is non-finite, as in IEEE arithmetic
RDiv(a, b) ==
    IF ~Finite(a) \/ ~Finite(b) \/ b[1] = 0 THEN NonFinite
    ELSE Rat(a[1] * b[2], a[2] * b[1])

\* comparisons with a non-finite operand are false, as with NaN
RLt(a, b) == Finite(a) /\ Finite(b) /\ a[1] * b[2] < b[1] * a[2]

RLe(a, b) == Finite(a) /\ Finite(b) /\ a[1] * b[2] <= b[1] * a[2]

RAbs(a) == <<IAbs(a[1]), a[2]>>

\* glm::max(x, y) is (x < y) ? y : x
RMax(a, b) == IF RLt(a, b) THEN b ELSE a

RECURSIVE RPow(_, _)
RPow(a, e) == IF e = 0 THEN Num(1) ELSE RMul(a, RPow(a, e - 1))

\* (int) x: truncation toward zero
Trunc(a) == IF a[1] >= 0 THEN a[1] \div a[2] ELSE -((-a[1]) \div a[2])

ISqrt(n) == CHOOSE r \in 0..n : r * r = n

\* the square root of a rational square
RSqrt(a) ==
    IF ~Finite(a) \/ a[1] < 0 THEN NonFinite
    ELSE <<ISqrt(a[1]), ISqrt(a[2])>>

\* cos(u * TWO_PI) and sin(u * TWO_PI) at the quarter turns
CosTurn(u) ==
    CASE u = <<0, 1>> -> Num(1)
      [] u = <<1, 4>> -> Num(0)
      [] u = <<1, 2>> -> Num(-1)
      [] u = <<3, 4>> -> Num(0)

SinTurn(u) ==
    CASE u = <<0, 1>> -> Num(0)
      [] u = <<1, 4>> -> Num(1)
      [] u = <<1, 2>> -> Num(0)
      [] u = <<3, 4>> -> Num(-1)

(* ------------------------------ vectors ------------------------------- *)

VInt(x, y, z) == <<Num(x), Num(y), Num(z)>>

VAdd(a, b) == <<RAdd(a[1], b[1]), RAdd(a[2], b[2]), RAdd(a[3], b[3])>>

VSub(a, b) == <<RSub(a[1], b[1]), RSub(a[2], b[2]), RSub(a[3], b[3])>>

VScale(s, a) == <<RMul(s, a[1]), RMul(s, a[2]), RMul(s, a[3])>>

\* component-wise product of two vec3
VMul(a, b) == <<RMul(a[1], b[1]), RMul(a[2], b[2]), RMul(a[3], b[3])>>

VDivS(a, s) == <<RDiv(a[1], s), RDiv(a[2], s), RDiv(a[3], s)>>

Dot(a, b) == RAdd(RAdd(RMul(a[1], b[1]), RMul(a[2], b[2])), RMul(a[3], b[3]))

Cross(a, b) ==
    <<RSub(RMul(a[2], b[3]), RMul(b[2], a[3])),
      RSub(RMul(a[3], b[1]), RMul(b[3], a[1])),
      RSub(RMul(a[1], b[2]), RMul(b[1], a[2]))>>

VFinite(a) == Finite(a[1]) /\ Finite(a[2]) /\ Finite(a[3])

\* glm::normalize(v) = v * inversesqrt(dot(v, v)); a zero vector gives NaN
Normalize(a) == VDivS(a, RSqrt(Dot(a, a)))

\* glm::reflect(I, N) = I - N * dot(N, I) * 2
Reflect(i, n) == VSub(i, VScale(RMul(Dot(n, i), Num(2)), n))

(* --------------- calculateRandomDirectionInHemisphere ----------------- *)

\* |x| < SQRT_OF_ONE_THIRD, decided exactly on a rational x
BelowSqrtOfOneThird(x) == 3 * x[1] * x[1] < x[2] * x[2]

DirectionNotNormalAlwaysX(normal) == VInt(1, 0, 0)

DirectionNotNormal(normal) ==
    IF BelowSqrtOfOneThird(normal[1]) THEN VInt(1, 0, 0)
    ELSE IF BelowSqrtOfOneThird(normal[2]) THEN VInt(0, 1, 0)
    ELSE VInt(0, 0, 1)

PerpendicularDirection1(normal) ==
    Normalize(Cross(normal, DirectionNotNormal(normal)))

PerpendicularDirection2(normal) ==
    Normalize(Cross(normal, PerpendicularDirection1(normal)))

\* u1 and u2 are the two samples the function draws from the engine, in order
CalculateRandomDirectionInHemisphere(normal, u1, u2) ==
    LET up   == RSqrt(u1)
        over == RSqrt(RSub(Num(1), RMul(up, up)))
    IN  VAdd(VAdd(VScale(up, normal),
                  VScale(RMul(CosTurn(u2), over), PerpendicularDirection1(normal))),
             VScale(RMul(SinTurn(u2), over), PerpendicularDirection2(normal)))

(* ----------------- quantities that carry powers of pi ------------------ *)

Zero3 == VInt(0, 0, 0)

\* c * pi^(-invPi); a zero vector is kept with invPi = 0
Scaled(c, k) == [c |-> c, invPi |-> IF c = Zero3 THEN 0 ELSE k]

Plain(c) == Scaled(c, 0)

SMul(a, b) == Scaled(VMul(a.c, b.c), a.invPi + b.invPi)

SScale(a, s) == Scaled(VScale(s, a.c), a.invPi)

SDivS(a, s) == Scaled(VDivS(a.c, s), a.invPi)

\* x / TWO_PI
SDivTwoPi(a) == Scaled(VDivS(a.c, Num(2)), a.invPi + 1)

\* x / PI
SDivPi(a) == Scaled(a.c, a.invPi + 1)

(* ------------------------------ the scene ----------------------------- *)

Lanes == {1, 2}

\* Material: color, specular.exponent, specular.color, hasReflective
Materials ==
    [m \in 0..2 |->
        CASE m = 0 -> [color |-> <<Rat(4, 5), Rat(1, 2), Rat(1, 5)>>,
                       specular |-> [exponent |-> 0, color |-> <<Rat(1, 5), Rat(1, 5), Rat(1, 5)>>],
                       hasReflective |-> Num(0)]
          [] m = 1 -> [color |-> <<Rat(1, 2), Rat(1, 2), Rat(1, 2)>>,
                       specular |-> [exponent |-> 2, color |-> <<Num(1), Rat(1, 2), Rat(1, 2)>>],
                       hasReflective |-> Num(1)]
          [] m = 2 -> [color |-> <<Rat(1, 2), Rat(1, 4), Num(1)>>,
                       specular |-> [exponent |-> 1, color |-> <<Rat(1, 2), Rat(1, 2), Num(1)>>],
                       hasReflective |-> Rat(1, 2)]]

\* translations of the emissive objects, all at a rational distance from
\* every hit position of Surfaces
LightTranslations ==
    <<VInt(3, 9, 0), VInt(0, 8, 0), VInt(3, 1, 0), VInt(0, 0, 0)>>

\* the geometry array: object 0 does not emit, objects 1..MaxLights do
Geoms ==
    [g \in 0..MaxLights |->
        [translation |-> IF g = 0 THEN VInt(0, 4, 0) ELSE LightTranslations[g]]]

\* the light-index list of a scene with n lights
LightList(n) == [i \in 0..(n - 1) |-> i + 1]

\* hit position and unit surface normal
Surfaces ==
    { [intersectPos |-> VInt(3, 4, 0), surfaceNormal |-> VInt(0, 1, 0)],
      [intersectPos |-> VInt(0, 5, 0), surfaceNormal |-> VInt(1, 0, 0)],
      [intersectPos |-> VInt(3, 4, 0), surfaceNormal |-> <<Rat(3, 5), Rat(4, 5), Num(0)>>] }

\* ShadeableIntersection records
Intersections ==
    { [intersectPos |-> s.intersectPos, surfaceNormal |-> s.surfaceNormal,
       materialId |-> m] : s \in Surfaces, m \in DOMAIN Materials }

\* the next four outputs of u01 on a freshly seeded engine, each in [0, 1)
Streams ==
    { <<Num(0),    Rat(3, 4), Rat(9, 25),  Rat(1, 4)>>,
      <<Rat(3, 4), Num(0),    Rat(9, 25),  Rat(1, 4)>>,
      <<Rat(1, 2), Rat(3, 4), Rat(16, 25), Rat(1, 2)>>,
      <<Rat(3, 4), Rat(1, 2), Num(0),      Rat(3, 4)>> }

\* a path segment as the camera spawns it
CameraPath(lane, bounces) ==
    [ray |-> [origin |-> Zero3, direction |-> <<Rat(3, 5), Rat(-4, 5), Num(0)>>],
     color |-> Plain(VInt(1, 1, 1)),
     throughput |-> Plain(VInt(1, 1, 1)),
     pixelIndex |-> lane,
     remainingBounces |-> bounces]

(* ------------------------------ the state ----------------------------- *)

VARIABLES
    paths,      \* lane -> PathSegment
    isects,     \* lane -> ShadeableIntersection
    rng,        \* lane -> engine: [stream, pos], pos outputs already drawn
    frame,      \* lane -> the locals of the lane's scatterRay call
    pc,         \* lane -> position of the lane
    geoms,      \* the geometry array
    lights,     \* the light-index list
    lightsNum,  \* its length, as passed to scatterRay
    materials,  \* the material array
    hemi        \* one call of calculateRandomDirectionInHemisphere

vars == <<paths, isects, rng, frame, pc, geoms, lights, lightsNum, materials, hemi>>

scene == <<geoms, lights, lightsNum, materials>>

\* the locals of scatterRay before its first statement
FreshFrame(path) ==
    [entry |-> path, normal |-> Zero3, randMat |-> Num(0), rL |-> Num(0),
     randLight |-> 0, L |-> Zero3, color |-> Plain(Zero3), branch |-> "none"]

HemiIdle ==
    [normal |-> VInt(0, 1, 0), u1 |-> Num(0), u2 |-> Num(0), out |-> Zero3,
     done |-> FALSE]

(* ------------------------------ scatterRay ---------------------------- *)

\* u01(rng): the engine's next output
Draw(r) == r.stream[r.pos + 1]

Advance(r) == [r EXCEPT !.pos = @ + 1]

\* the path segment a lane's call refers to: its own
PathOfShared(l) == 1

PathOf(l) == l

\* lines 84-87
StepEntry(ls, intersection) ==
    [path  |-> [ls.path EXCEPT !.ray.origin = intersection.intersectPos],
     rng   |-> ls.rng,
     frame |-> [FreshFrame(ls.path) EXCEPT !.normal = intersection.surfaceNormal]]

\* lines 90 and 94: randMat is drawn first, the light sample second
BranchAndLightDrawsSwapped(r) ==
    [randMat |-> Draw(Advance(r)), light |-> Draw(r)]

BranchAndLightDraws(r) ==
    [randMat |-> Draw(r), light |-> Draw(Advance(r))]

\* lines 94-95
LightIndexRoundedUp(u, n) ==
    LET rL == RMul(u, Num(n)) IN
    IF rL[2] = 1 THEN Trunc(rL) ELSE Trunc(rL) + 1

LightIndex(u, n) == Trunc(RMul(u, Num(n)))

RandLight(r, n) == LightIndex(BranchAndLightDraws(r).light, n)

\* what the read geoms[lights[i]].translation of line 96 can yield: the
\* element, or any value when the read is out of bounds
GeomRead(lts, gms, i) ==
    IF i \in DOMAIN lts /\ lts[i] \in DOMAIN gms
    THEN {gms[lts[i]].translation}
    ELSE {gms[k].translation : k \in DOMAIN gms}

\* lines 89-97; g is the translation read at line 96
StepSample(ls, n, g) ==
    LET d  == BranchAndLightDraws(ls.rng)
        rL == RMul(d.light, Num(n))
    IN  [path  |-> ls.path,
         rng   |-> Advance(Advance(ls.rng)),
         frame |-> [ls.frame EXCEPT !.randMat = d.randMat,
                                    !.rL = rL,
                                    !.randLight = LightIndex(d.light, n),
                                    !.L = Normalize(VSub(g, ls.path.ray.origin))]]

\* line 100
SpecularSelectedInverted(randMat, hasReflective) == RLt(hasReflective, randMat)

SpecularSelected(randMat, hasReflective) == RLe(randMat, hasReflective)

\* line 104, the value line 107 overwrites
SpecularHighlight(mat, r, v) ==
    Plain(VDivS(VScale(RPow(Dot(r, v), mat.specular.exponent),
                       VScale(mat.hasReflective,
                              VMul(VInt(1, 1, 1), mat.specular.color))),
                mat.hasReflective))

\* lines 104-107: the local color of the specular branch
SpecularColor(mat, r, v) == Plain(mat.specular.color)

\* line 115, the value line 117 overwrites
DiffuseLit(throughput, mat, lux) ==
    SDivS(SScale(SMul(throughput, Plain(mat.color)), lux),
          RSub(Num(1), mat.hasReflective))

\* lines 115-117: the local color of the diffuse branch
DiffuseColor(throughput, mat, lux) == Plain(mat.color)

\* line 120
ThroughputUpdate(throughput, color, direction, normal) ==
    SMul(throughput, SDivTwoPi(SScale(color, RAbs(Dot(direction, normal)))))

\* lines 100-123
StepBranch(ls, intersection, mat) ==
    LET normal == ls.frame.normal IN
    IF SpecularSelected(ls.frame.randMat, mat.hasReflective)
    THEN LET r == Reflect(ls.path.ray.direction, normal)
             v == Normalize(intersection.intersectPos)
         IN  [path  |-> [ls.path EXCEPT !.ray.direction = r],
              rng   |-> ls.rng,
              frame |-> [ls.frame EXCEPT !.color = SpecularColor(mat, r, v),
                                         !.branch = "specular"]]
    ELSE LET diffuse == Dot(normal, ls.frame.L)
             ambient == Rat(1, 5)
             lux     == RAdd(diffuse, ambient)
             color   == DiffuseColor(ls.path.throughput, mat, lux)
             u1      == Draw(ls.rng)
             u2      == Draw(Advance(ls.rng))
         IN  [path  |-> [ls.path EXCEPT
                            !.throughput = ThroughputUpdate(@, color,
                                               ls.path.ray.direction, normal),
                            !.ray.direction =
                                CalculateRandomDirectionInHemisphere(normal, u1, u2)],
              rng   |-> Advance(Advance(ls.rng)),
              frame |-> [ls.frame EXCEPT !.color = color, !.branch = "diffuse"]]

\* lines 189-191 of the retired variant: the budget is zeroed
StepStoreTerminate(ls) ==
    [ls EXCEPT !.path.color = ls.frame.color, !.path.remainingBounces = 0]

\* lines 125-126
StepStore(ls) ==
    [ls EXCEPT !.path.color = ls.frame.color,
               !.path.remainingBounces = @ - 1]

\* the whole call, lines 69-128
ScatterRayCall(ls, intersection, mat, n, g) ==
    CHOOSE out \in
        { StepStore(c) : c \in
            { StepBranch(b, intersection, mat) : b \in
                { StepSample(a, n, g) : a \in {StepEntry(ls, intersection)} } } } :
        TRUE

(* ------------------------------- actions ------------------------------ *)

LaneState(l) == [path |-> paths[PathOf(l)], rng |-> rng[l], frame |-> frame[l]]

\* the material the caller passes for the lane's intersection
MatOf(l) == materials[isects[l].materialId]

\* write a lane's call state back: the path through its reference, the
\* engine and the locals to the lane's own
Commit(l, ls, next) ==
    \E s \in {ls} :
        /\ paths' = [paths EXCEPT ![PathOf(l)] = s.path]
        /\ rng'   = [rng EXCEPT ![l] = s.rng]
        /\ frame' = [frame EXCEPT ![l] = s.frame]
        /\ pc'    = [pc EXCEPT ![l] = next]
        /\ UNCHANGED <<isects, scene, hemi>>

\* The integrator loop, once per bounce of a live path: an intersection
\* and its material are supplied and the engine is seeded afresh.
Supply(l) ==
    /\ pc[l] \in {"await", "shaded"}
    /\ paths[l].remainingBounces > 0
    /\ \E i \in Intersections, st \in Streams :
          /\ isects' = [isects EXCEPT ![l] = i]
          /\ rng'    = [rng EXCEPT ![l] = [stream |-> st, pos |-> 0]]
    /\ frame' = [frame EXCEPT ![l] = FreshFrame(paths[l])]
    /\ pc' = [pc EXCEPT ![l] = "ready"]
    /\ UNCHANGED <<paths, scene, hemi>>

\* one whole call of scatterRay
ScatterRay(l) ==
    /\ pc[l] = "ready"
    /\ \E g \in GeomRead(lights, geoms, RandLight(rng[l], lightsNum)) :
          Commit(l, ScatterRayCall(LaneState(l), isects[l], MatOf(l), lightsNum, g),
                 "shaded")

\* the same call, statement group by statement group
LaneEntry(l) ==
    /\ pc[l] = "ready"
    /\ Commit(l, StepEntry(LaneState(l), isects[l]), "origin")

LaneSample(l) ==
    /\ pc[l] = "origin"
    /\ \E g \in GeomRead(lights, geoms, RandLight(rng[l], lightsNum)) :
          Commit(l, StepSample(LaneState(l), lightsNum, g), "sampled")

LaneBranch(l) ==
    /\ pc[l] = "sampled"
    /\ Commit(l, StepBranch(LaneState(l), isects[l], MatOf(l)), "bounced")

LaneStore(l) ==
    /\ pc[l] = "bounced"
    /\ Commit(l, StepStore(LaneState(l)), "shaded")

\* one call of calculateRandomDirectionInHemisphere
SampleHemisphere ==
    /\ ~hemi.done
    /\ hemi' = [hemi EXCEPT
                   !.out = CalculateRandomDirectionInHemisphere(hemi.normal,
                                                                hemi.u1, hemi.u2),
                   !.done = TRUE]
    /\ UNCHANGED <<paths, isects, rng, frame, pc, scene>>

(* --------------------------- specifications --------------------------- *)

\* a scene with n lights; scatterRay requires n > 0 of its caller
SceneWith(n) ==
    /\ lightsNum = n
    /\ lights = LightList(n)
    /\ geoms = Geoms
    /\ materials = Materials

SceneInit == \E n \in 1..MaxLights : SceneWith(n)

IdleIntersection ==
    [intersectPos |-> Zero3, surfaceNormal |-> VInt(0, 1, 0), materialId |-> 0]

IdleEngine == [stream |-> <<Num(0), Num(0), Num(0), Num(0)>>, pos |-> 0]

\* One live path, bounced until its budget is spent; the other lane holds
\* a path whose budget is already zero.
Init ==
    /\ SceneInit
    /\ \E b \in 1..MaxBounces :
          paths = [l \in Lanes |-> CameraPath(l, IF l = 1 THEN b ELSE 0)]
    /\ isects = [l \in Lanes |-> IdleIntersection]
    /\ rng = [l \in Lanes |-> IdleEngine]
    /\ frame = [l \in Lanes |-> FreshFrame(paths[l])]
    /\ pc = [l \in Lanes |-> "await"]
    /\ hemi = HemiIdle

Next == \E l \in Lanes : Supply(l) \/ ScatterRay(l)

Spec == Init /\ [][Next]_vars

\* One kernel launch: every lane holds a live path with its intersection
\* and a seeded engine, and the lanes run scatterRay concurrently.
InitLanes ==
    /\ SceneInit
    /\ paths = [l \in Lanes |-> CameraPath(l, MaxBounces)]
    /\ isects \in [Lanes -> Intersections]
    /\ rng \in [Lanes -> {[stream |-> st, pos |-> 0] : st \in Streams}]
    /\ frame = [l \in Lanes |-> FreshFrame(paths[l])]
    /\ pc = [l \in Lanes |-> "ready"]
    /\ hemi = HemiIdle

NextLanes ==
    \E l \in Lanes : LaneEntry(l) \/ LaneSample(l) \/ LaneBranch(l) \/ LaneStore(l)

SpecLanes == InitLanes /\ [][NextLanes]_vars

\* unit normals whose helper cross product has a rational length
HemiNormals ==
    { VInt(1, 0, 0), VInt(-1, 0, 0), VInt(0, 1, 0), VInt(0, -1, 0),
      VInt(0, 0, 1), VInt(0, 0, -1),
      <<Rat(3, 5), Rat(4, 5), Num(0)>>, <<Rat(-4, 5), Rat(3, 5), Num(0)>>,
      <<Rat(3, 5), Num(0), Rat(-4, 5)>>, <<Num(0), Rat(3, 5), Rat(4, 5)>>,
      <<Num(0), Rat(-4, 5), Rat(3, 5)>>,
      <<Rat(5, 13), Rat(12, 13), Num(0)>>, <<Rat(12, 13), Rat(-5, 13), Num(0)>>,
      <<Rat(5, 13), Rat(36, 65), Rat(48, 65)>> }

\* samples u1 with rational sqrt(u1) and sqrt(1 - u1)
HemiU1 == { Num(0), Rat(9, 25), Rat(16, 25), Rat(25, 169), Rat(144, 169) }

\* samples u2 at the quarter turns
HemiU2 == { Num(0), Rat(1, 4), Rat(1, 2), Rat(3, 4) }

InitHemi ==
    /\ SceneWith(1)
    /\ paths = [l \in Lanes |-> CameraPath(l, 0)]
    /\ isects = [l \in Lanes |-> IdleIntersection]
    /\ rng = [l \in Lanes |-> IdleEngine]
    /\ frame = [l \in Lanes |-> FreshFrame(paths[l])]
    /\ pc = [l \in Lanes |-> "await"]
    /\ \E n \in HemiNormals, a \in HemiU1, b \in HemiU2 :
          hemi = [HemiIdle EXCEPT !.normal = n, !.u1 = a, !.u2 = b]

NextHemi == SampleHemisphere

SpecHemi == InitHemi /\ [][NextHemi]_vars

(* ------------------------------- claims ------------------------------- *)

\* the lane's call of scatterRay has returned
Returned(l) == pc[l] = "shaded"

Specular(l) == Returned(l) /\ frame[l].branch = "specular"

Diffuse(l) == Returned(l) /\ frame[l].branch = "diffuse"

\* C1: after every call of scatterRay, in either branch, remainingBounces is
\* its value on entry minus exactly 1, and the path field outside ray,
\* throughput, color and remainingBounces (pixelIndex) keeps its entry value.
C1_BouncesDecrementedByOne ==
    \A l \in Lanes :
        Returned(l) =>
            /\ paths[l].remainingBounces = frame[l].entry.remainingBounces - 1
            /\ paths[l].pixelIndex = frame[l].entry.pixelIndex

\* a diffuse call has returned on a path that entered with budget above 1
C1_Witness ==
    \E l \in Lanes :
        /\ Diffuse(l)
        /\ frame[l].entry.remainingBounces > 1
        /\ paths[l].throughput # frame[l].entry.throughput

\* C2: with hasReflective = 1 every call takes the specular branch, and the
\* new ray direction is the entry direction reflected about the normal,
\* I - 2 * dot(N, I) * N.
C2_FullyReflectiveIsSpecular ==
    \A l \in Lanes :
        (Returned(l) /\ MatOf(l).hasReflective = Num(1)) =>
            /\ frame[l].branch = "specular"
            /\ LET i == frame[l].entry.ray.direction
                   n == isects[l].surfaceNormal
               IN  paths[l].ray.direction =
                       VSub(i, VScale(RMul(Num(2), Dot(n, i)), n))

\* a call on a fully reflective material with a nonzero branch sample
C2_Witness ==
    \E l \in Lanes :
        /\ Returned(l)
        /\ MatOf(l).hasReflective = Num(1)
        /\ frame[l].randMat = Rat(3, 4)
        /\ paths[l].ray.direction # frame[l].entry.ray.direction

\* C3 (as claimed): with hasReflective = 0 every call takes the diffuse
\* branch, whatever the branch sample in [0, 1), the value 0 included.
C3_ZeroReflectiveIsDiffuse ==
    \A l \in Lanes :
        (Returned(l) /\ MatOf(l).hasReflective = Num(0)) =>
            frame[l].branch = "diffuse"

\* the lighting term of the diffuse branch as the spec states it
ClaimedLux(l) ==
    RAdd(RMax(Dot(isects[l].surfaceNormal, frame[l].L), Num(0)), Rat(1, 5))

C6_ThroughputUsesNewDirectionAndPi ==
    \A l \in Lanes :
        Diffuse(l) =>
            paths[l].throughput =
                SMul(frame[l].entry.throughput,
                     SDivPi(SScale(Plain(MatOf(l).color),
                                   RAbs(Dot(paths[l].ray.direction,
                                            isects[l].surfaceNormal)))))

\* C7: in every call (either branch) lightsNum > 0, the index read from the
\* light-index list is floor(u * lightsNum) for the light sample u, it lies
\* in [0, lightsNum - 1] and inside the list, the geometry index found
\* there lies inside the geometry array, and L is taken from that element.
C7_LightIndexInRange ==
    \A l \in Lanes :
        Returned(l) =>
            LET u   == rng[l].stream[2]
                idx == frame[l].randLight
            IN  /\ lightsNum > 0
                /\ idx = (u[1] * lightsNum) \div u[2]
                /\ 0 <= idx /\ idx <= lightsNum - 1
                /\ idx \in DOMAIN lights
                /\ lights[idx] \in DOMAIN geoms
                /\ frame[l].L =
                       Normalize(VSub(geoms[lights[idx]].translation,
                                      isects[l].intersectPos))

\* a specular call that read the last entry of a list of several lights
C7_Witness ==
    \E l \in Lanes :
        /\ Specular(l)
        /\ lightsNum > 1
        /\ frame[l].randLight = lightsNum - 1

\* C8: for every unit normal and pair of samples the returned direction is
\* finite, of unit length and in the normal's hemisphere; the helper axis
\* is never parallel to the normal and {normal, t1, t2} is orthonormal.
C8_HemisphereDirectionIsUnit ==
    hemi.done =>
        LET n  == hemi.normal
            t1 == PerpendicularDirection1(n)
            t2 == PerpendicularDirection2(n)
        IN  /\ VFinite(hemi.out)
            /\ Dot(hemi.out, hemi.out) = Num(1)
            /\ RLe(Num(0), Dot(hemi.out, n))
            /\ Cross(n, DirectionNotNormal(n)) # Zero3
            /\ Dot(t1, t1) = Num(1) /\ Dot(t2, t2) = Num(1)
            /\ Dot(n, t1) = Num(0) /\ Dot(n, t2) = Num(0) /\ Dot(t1, t2) = Num(0)

\* a sample about a normal whose helper axis is z, off the normal
C8_Witness ==
    /\ hemi.done
    /\ hemi.normal = <<Rat(3, 5), Rat(4, 5), Num(0)>>
    /\ DirectionNotNormal(hemi.normal) = VInt(0, 0, 1)
    /\ hemi.u1 = Rat(9, 25)
    /\ hemi.out # hemi.normal

\* the state a lane's call produces when it runs alone on the path the
\* camera spawned
AloneResult(l) ==
    LET start == CameraPath(l, MaxBounces)
        e     == [stream |-> rng[l].stream, pos |-> 0]
        g     == geoms[lights[RandLight(e, lightsNum)]].translation
    IN  ScatterRayCall([path |-> start, rng |-> e, frame |-> FreshFrame(start)],
                       isects[l], MatOf(l), lightsNum, g)

\* C9: with the lanes interleaved in any way, no step writes the geometry
\* array, the light-index list, the material array or an intersection
\* record; a path no lane has started on is as spawned; and each returned
\* lane's path, engine and locals are those of its call run alone.
C9_LanesDoNotInterfere ==
    /\ [](\A l \in Lanes :
            /\ pc[l] = "ready" => paths[l] = CameraPath(l, MaxBounces)
            /\ Returned(l) =>
                  [path |-> paths[l], rng |-> rng[l], frame |-> frame[l]]
                      = AloneResult(l))
    /\ [][/\ geoms' = geoms /\ lights' = lights /\ materials' = materials
          /\ isects' = isects]_vars

\* both lanes have returned, one from each branch
C9_Witness ==
    /\ Specular(1) /\ Diffuse(2)
    /\ paths[1] # CameraPath(1, MaxBounces)
    /\ paths[2] # CameraPath(2, MaxBounces)

\* C10: the origin is set to the hit position before any sample is drawn;
\* the first draw is the branch sample and the second the light sample,
\* both drawn before the branch is decided; only the diffuse branch draws
\* two more, u1 then u2, for the hemisphere sampler: a specular call
\* advances the engine by 2 draws and a diffuse call by 4.
C10_DrawOrder ==
    \A l \in Lanes :
        /\ pc[l] = "ready" => rng[l].pos = 0
        /\ pc[l] = "origin" =>
              rng[l].pos = 0 /\ paths[l].ray.origin = isects[l].intersectPos
        /\ pc[l] = "sampled" =>
              /\ rng[l].pos = 2
              /\ frame[l].branch = "none"
              /\ frame[l].randMat = rng[l].stream[1]
              /\ frame[l].rL = RMul(rng[l].stream[2], Num(lightsNum))
        /\ Returned(l) =>
              /\ frame[l].randMat = rng[l].stream[1]
              /\ frame[l].rL = RMul(rng[l].stream[2], Num(lightsNum))
              /\ frame[l].branch = "specular" => rng[l].pos = 2
              /\ frame[l].branch = "diffuse" =>
                    /\ rng[l].pos = 4
                    /\ paths[l].ray.direction =
                          CalculateRandomDirectionInHemisphere(
                              isects[l].surfaceNormal,
                              rng[l].stream[3], rng[l].stream[4])

\* one lane returned from a specular call, the other from a diffuse call
C10_Witness ==
    /\ Specular(1) /\ rng[1].pos = 2
    /\ Diffuse(2) /\ rng[2].pos = 4
    /\ rng[1].stream[1] # rng[1].stream[2]

====
